---- MODULE Spec2Model ----
(***************************************************************************)
(* Shape::parallel_offset of cavalier_contours                             *)
(* (src/cavalier_contours/src/shape_algorithms/mod.rs).                    *)
(*                                                                         *)
(* The function is modelled as a state machine whose program counter pc    *)
(* walks the stages of the function body: raw offset generation, the       *)
(* offset-count check, the pairwise intersection loops, the slicing loops, *)
(* the stitcher and the final assembly.  The geometric collaborators       *)
(* (single-polyline offset, polyline intersection, point_valid_for_offset, *)
(* the AABB index) are oracles: each call draws its answer from a bounded  *)
(* set.  Indices are 0-based as in the source; a sequence s is read at     *)
(* index i as s[i + 1].                                                    *)
(***************************************************************************)
EXTENDS Integers, Sequences, FiniteSets, TLC

(* ------------------------------ bounds -------------------------------- *)
MaxCcwIn == 2
MaxCwIn == 2
MaxRaw == 2
MaxZeroArea == 1
MaxOffsetLoops == 4
MaxInputsManyOffsets == 2
MaxOffsetLoopsManyInputs == 2
MaxCcwOffsetLoops == 2
MaxBoxOverlaps == 2
MaxPoints == 3
MaxPointsMany == 1
MaxPointsManyInputs == 2
MaxOverlap == 1
MaxSeg == 2
MaxPos == 3
MaxNearPairs == 1

VARIABLES
    pc, result, panic_site, empty_index_ok,
    ccw_plines, cw_plines, join_overlap, join_within,
    it, parent_idx, next_id, raw_offsets, ccw_offset_loops, cw_offset_loops,
    bbox_overlap, bbox_decided,
    i, query_results, visited_loop_pairs, slice_point_sets, slice_points_lookup,
    intersect_calls,
    loop_idx, sorted_intrs, win, too_close_of, slices_data, candidates, probes,
    ccw_plines_result, cw_plines_result,
    slice_idx, visited_slices_idxs, current_index, loop_count, current_pline,
    stitch_log

vars == <<pc, result, panic_site, empty_index_ok, ccw_plines, cw_plines,
          join_overlap, join_within,
          it, parent_idx, next_id, raw_offsets, ccw_offset_loops, cw_offset_loops,
          bbox_overlap, bbox_decided,
          i, query_results, visited_loop_pairs, slice_point_sets,
          slice_points_lookup, intersect_calls,
          loop_idx, sorted_intrs, win, too_close_of, slices_data, candidates, probes,
          ccw_plines_result, cw_plines_result,
          slice_idx, visited_slices_idxs, current_index, loop_count, current_pline,
          stitch_log>>

genVars == <<it, parent_idx, next_id, raw_offsets, ccw_offset_loops, cw_offset_loops>>
isectVars == <<bbox_overlap, bbox_decided, i, query_results, visited_loop_pairs,
               slice_point_sets, slice_points_lookup, intersect_calls>>
sliceVars == <<loop_idx, sorted_intrs, win, too_close_of, slices_data, candidates, probes>>
resVars == <<ccw_plines_result, cw_plines_result>>
stitchVars == <<slice_idx, visited_slices_idxs, current_index, loop_count,
                current_pline, stitch_log>>
envVars == <<empty_index_ok, ccw_plines, cw_plines, join_overlap, join_within>>

(* ------------------------------ helpers ------------------------------- *)
Areas == {-1, 0, 1}

Pos == 0 .. (MaxPos - 1)

SeqsUpTo(S, n) == UNION {[1 .. k -> S] : k \in 0 .. n}

(* Number of input loops of the shape; input loop k (0-based, CCW loops    *)
(* first) is identified by k.                                              *)
InputLoopCount == Len(ccw_plines) + Len(cw_plines)

(* A raw offset polyline: id is its identity, src the input loop it was    *)
(* offset from, area the sign of its signed area.                          *)
Polyline(id, src, area) == [id |-> id, src |-> src, area |-> area]

OffsetLoop(parent, pline) == [parent_loop_idx |-> parent, indexed_pline |-> pline]

(* Polyline::orientation of a closed polyline: clockwise iff the signed    *)
(* area is negative.                                                       *)
orientation(pline) == IF pline.area < 0 THEN "Clockwise" ELSE "CounterClockwise"

(* Shape::get_loop.  get_loop_in_bounds tells whether the slice index the  *)
(* function evaluates is in bounds (otherwise the index panics).           *)
get_loop_in_bounds(n, s1, s2) == n < Len(s1) \/ n < Len(s2)

get_loop(n, s1, s2) == IF n < Len(s1) THEN s1[n + 1] ELSE s2[n + 1]

offset_loop_count == Len(ccw_offset_loops) + Len(cw_offset_loops)

(* The offset loops in the order the spatial index of their bounding boxes *)
(* is filled: CCW list, then CW list.  Index k of that index is            *)
(* IndexedLoops[k + 1].                                                    *)
IndexedLoops == ccw_offset_loops \o cw_offset_loops

(* Bag of the calls of the intersector, each recorded as the set of the    *)
(* ids of the two polylines it was given.                                  *)
EmptyBagOfCalls == [c \in {} |-> 0]

BagAdd(b, c) ==
    IF c \in DOMAIN b
    THEN [b EXCEPT ![c] = @ + 1]
    ELSE [x \in DOMAIN b \cup {c} |-> IF x = c THEN 1 ELSE b[x]]

(* The answers point_valid_for_offset has given so far, as a function from *)
(* the points asked about to the input loops each is too close to: the     *)
(* same point gets the same answers every time it is asked about.          *)
NoAnswers == [m \in {} |-> {}]

(* Record of the last step of the stitcher's walk: the slice it stood on,  *)
(* the visited flags before its query, what the query returned and the     *)
(* slice it chose (-1: none, the loop was finalized).                      *)
NoStitchStep == [from |-> -1, visited |-> <<>>, query |-> <<>>, chosen |-> -1]

Panic(site) ==
    /\ pc' = "done"
    /\ result' = "Panic"
    /\ panic_site' = site

(* ---------------------------- initial state --------------------------- *)
Init ==
    /\ pc = "gen_ccw"
    /\ result = "Running"
    /\ panic_site = "none"
    /\ empty_index_ok = "unknown"
    /\ join_overlap = {}
    /\ join_within = {}
    /\ \E nccw \in 0 .. MaxCcwIn, ncw \in 0 .. MaxCwIn :
          /\ ccw_plines = [k \in 1 .. nccw |-> k - 1]
          /\ cw_plines = [k \in 1 .. ncw |-> nccw + k - 1]
    /\ it = 0
    /\ parent_idx = 0
    /\ next_id = 0
    /\ raw_offsets = <<>>
    /\ ccw_offset_loops = <<>>
    /\ cw_offset_loops = <<>>
    /\ bbox_overlap = {}
    /\ bbox_decided = {}
    /\ i = 0
    /\ query_results = {}
    /\ visited_loop_pairs = {}
    /\ slice_point_sets = <<>>
    /\ slice_points_lookup = <<>>
    /\ intersect_calls = EmptyBagOfCalls
    /\ loop_idx = 0
    /\ sorted_intrs = <<>>
    /\ win = 0
    /\ too_close_of = NoAnswers
    /\ slices_data = <<>>
    /\ candidates = <<>>
    /\ probes = <<>>
    /\ ccw_plines_result = <<>>
    /\ cw_plines_result = <<>>
    /\ slice_idx = 0
    /\ visited_slices_idxs = <<>>
    /\ current_index = 0
    /\ loop_count = 0
    /\ current_pline = <<>>
    /\ stitch_log = NoStitchStep

(* ----------------------- raw offset generation ------------------------ *)
(* IndexedPolyline::parallel_offset: the raw offset polylines of one input *)
(* loop, as the sequence of the signs of their areas.                      *)
RawOffsets == SeqsUpTo(Areas, MaxRaw)

ZeroAreaCount(loops) == Cardinality({k \in DOMAIN loops : loops[k].indexed_pline.area = 0})

(* The bounds on one run's raw offsets: their number and how many of them  *)
(* have zero area.  A shape of more than MaxInputsManyOffsets input loops  *)
(* is followed with MaxOffsetLoopsManyInputs offset loops at most.         *)
WithinGenBounds(acc) ==
    /\ Len(acc.ccw) + Len(acc.cw) <= MaxOffsetLoops
    /\ InputLoopCount > MaxInputsManyOffsets =>
           Len(acc.ccw) + Len(acc.cw) <= MaxOffsetLoopsManyInputs
    /\ Len(acc.ccw) <= MaxCcwOffsetLoops
    /\ ZeroAreaCount(acc.ccw) + ZeroAreaCount(acc.cw) <= MaxZeroArea

(* Line 115: the raw offset of a CCW input that is skipped.                *)
orientation_inverted(area) == area < 0

(* Line 139: the raw offset of a CW input that goes to cw_offset_loops.    *)
stays_cw(area) == area < 0

(* The loop body of lines 113-125 over the raw offsets of one CCW input.   *)
RECURSIVE PushCcwInput(_, _, _, _, _)
PushCcwInput(raw, k, src, parent, acc) ==
    IF k > Len(raw) THEN acc
    ELSE IF orientation_inverted(raw[k])
         THEN PushCcwInput(raw, k + 1, src, parent, acc)
         ELSE PushCcwInput(raw, k + 1, src, parent,
                  [acc EXCEPT !.ccw = Append(@, OffsetLoop(parent, Polyline(acc.id, src, raw[k]))),
                              !.id = @ + 1])

(* The loop body of lines 131-144 over the raw offsets of one CW input.    *)
RECURSIVE PushCwInput(_, _, _, _, _)
PushCwInput(raw, k, src, parent, acc) ==
    IF k > Len(raw) THEN acc
    ELSE LET ol == OffsetLoop(parent, Polyline(acc.id, src, raw[k]))
         IN IF stays_cw(raw[k])
            THEN PushCwInput(raw, k + 1, src, parent,
                     [acc EXCEPT !.cw = Append(@, ol), !.id = @ + 1])
            ELSE PushCwInput(raw, k + 1, src, parent,
                     [acc EXCEPT !.ccw = Append(@, ol), !.id = @ + 1])

GenAcc == [ccw |-> ccw_offset_loops, cw |-> cw_offset_loops, id |-> next_id]

(* One iteration of `for pline in self.ccw_plines.iter()`.                 *)
GenCcw ==
    /\ pc = "gen_ccw"
    /\ IF it < Len(ccw_plines)
       THEN \E raw \in RawOffsets :
               LET acc == PushCcwInput(raw, 1, ccw_plines[it + 1], parent_idx, GenAcc)
               IN /\ WithinGenBounds(acc)
                  /\ ccw_offset_loops' = acc.ccw
                  /\ cw_offset_loops' = acc.cw
                  /\ next_id' = acc.id
                  /\ raw_offsets' = raw
                  /\ parent_idx' = parent_idx + 1
                  /\ it' = it + 1
                  /\ pc' = pc
       ELSE /\ pc' = "gen_cw"
            /\ it' = 0
            /\ raw_offsets' = <<>>
            /\ UNCHANGED <<parent_idx, next_id, ccw_offset_loops, cw_offset_loops>>
    /\ UNCHANGED <<result, panic_site, envVars, isectVars, sliceVars, resVars, stitchVars>>

(* One iteration of `for pline in self.cw_plines.iter()`.                  *)
GenCw ==
    /\ pc = "gen_cw"
    /\ IF it < Len(cw_plines)
       THEN \E raw \in RawOffsets :
               LET acc == PushCwInput(raw, 1, cw_plines[it + 1], parent_idx, GenAcc)
               IN /\ WithinGenBounds(acc)
                  /\ ccw_offset_loops' = acc.ccw
                  /\ cw_offset_loops' = acc.cw
                  /\ next_id' = acc.id
                  /\ raw_offsets' = raw
                  /\ parent_idx' = parent_idx + 1
                  /\ it' = it + 1
                  /\ pc' = pc
       ELSE /\ pc' = "count_check"
            /\ it' = 0
            /\ raw_offsets' = <<>>
            /\ UNCHANGED <<parent_idx, next_id, ccw_offset_loops, cw_offset_loops>>
    /\ UNCHANGED <<result, panic_site, envVars, isectVars, sliceVars, resVars, stitchVars>>

(* Lines 148-152: no offsets remaining -> None.                            *)
CountCheck ==
    /\ pc = "count_check"
    /\ IF offset_loop_count = 0
       THEN /\ pc' = "done"
            /\ result' = "None"
       ELSE /\ pc' = "isect_outer"
            /\ result' = result
    /\ UNCHANGED <<panic_site, envVars, genVars, isectVars, sliceVars, resVars, stitchVars>>

(* ----------------------- pairwise intersection ------------------------ *)
(* Position in IndexedLoops (0-based) of an offset loop.                   *)
IndexOf(ol) == CHOOSE k \in 0 .. (offset_loop_count - 1) : IndexedLoops[k + 1] = ol

(* The segment of polyline pline an intersection at position p lies on.    *)
SegOf(pline, p) == (p + pline.id) % MaxSeg

(* polyline.at(seg).pos(): the position of the start vertex of a segment.  *)
VertexPos(pline, seg) == (pline.id + seg) % MaxPos

(* core::math::dist_squared on positions.                                  *)
dist_squared(a, b) == (a - b) * (a - b)

BasicIntersect(l1, l2, p) ==
    [start_index1 |-> SegOf(l1, p), start_index2 |-> SegOf(l2, p), point |-> p]

OverlapIntersect(l1, l2, p1, p2) ==
    [start_index1 |-> SegOf(l1, p1), start_index2 |-> SegOf(l2, p1),
     point1 |-> p1, point2 |-> p2]

RECURSIVE AscendingSeq(_)
AscendingSeq(S) ==
    IF S = {} THEN <<>>
    ELSE LET m == CHOOSE x \in S : \A y \in S : x <= y
         IN <<m>> \o AscendingSeq(S \ {m})

(* find_intersects_opt of two polylines: the answers the intersector may   *)
(* give, holding at most `budget` slice points.                            *)
IntersectResults(l1, l2, budget) ==
    {r \in [basic_intersects :
                {[k \in DOMAIN AscendingSeq(S) |-> BasicIntersect(l1, l2, AscendingSeq(S)[k])] :
                    S \in SUBSET Pos},
            overlapping_intersects :
                SeqsUpTo({OverlapIntersect(l1, l2, pp[1], pp[2]) :
                             pp \in {x \in Pos \X Pos : x[1] < x[2]}}, MaxOverlap)] :
        Len(r.basic_intersects) + 2 * Len(r.overlapping_intersects) <= budget}

(* Lines 229-249: the slice points of one intersect result.                *)
RECURSIVE OverlapPoints(_, _)
OverlapPoints(ovs, k) ==
    IF k > Len(ovs) THEN <<>>
    ELSE <<[start_index1 |-> ovs[k].start_index1, start_index2 |-> ovs[k].start_index2,
            point |-> ovs[k].point1],
           [start_index1 |-> ovs[k].start_index1, start_index2 |-> ovs[k].start_index2,
            point |-> ovs[k].point2]>> \o OverlapPoints(ovs, k + 1)

SlicePoints(intersects) ==
    intersects.basic_intersects \o OverlapPoints(intersects.overlapping_intersects, 1)

SlicePointSet(a, b, pts) == [loop_idx1 |-> a, loop_idx2 |-> b, slice_points |-> pts]

RECURSIVE TotalPoints(_, _)
TotalPoints(sets, k) ==
    IF k > Len(sets) THEN 0 ELSE Len(sets[k].slice_points) + TotalPoints(sets, k + 1)

(* The slice points one run may still receive: MaxPoints in all, fewer     *)
(* when there are more than two offset loops or more than                  *)
(* MaxInputsManyOffsets input loops.                                       *)
PointBudget ==
    (IF offset_loop_count > 2 THEN MaxPointsMany
     ELSE IF InputLoopCount > MaxInputsManyOffsets THEN MaxPointsManyInputs
     ELSE MaxPoints)
        - TotalPoints(slice_point_sets, 1)

(* BTreeMap entry(k).or_default().push(v).                                 *)
LookupPush(m, k, v) ==
    IF k \in DOMAIN m
    THEN [m EXCEPT ![k] = Append(@, v)]
    ELSE [x \in DOMAIN m \cup {k} |-> IF x = k THEN <<v>> ELSE m[x]]

(* Lines 185-194: the head of one iteration of `for i in                   *)
(* 0..offset_loop_count`: get_loop(i) and the bounding-box query with the  *)
(* box of the loop it returned.  Box overlap is symmetric and reflexive;   *)
(* the boxes of two loops are compared when the first of them is queried.  *)
IsectOuter ==
    /\ pc = "isect_outer"
    /\ IF i >= offset_loop_count
       THEN /\ pc' = "slice"
            /\ UNCHANGED <<result, panic_site, isectVars>>
       ELSE IF ~get_loop_in_bounds(i, ccw_offset_loops, cw_offset_loops)
       THEN /\ Panic("get_loop")
            /\ UNCHANGED isectVars
       ELSE LET loop1 == get_loop(i, ccw_offset_loops, cw_offset_loops)
                q == IndexOf(loop1)
                all == 0 .. (offset_loop_count - 1)
            IN \E fresh \in SUBSET (all \ (bbox_decided \cup {q})) :
                  /\ Cardinality(bbox_overlap) + Cardinality(fresh) <= MaxBoxOverlaps
                  /\ bbox_overlap' = bbox_overlap \cup {{q, j} : j \in fresh}
                  /\ bbox_decided' = bbox_decided \cup {q}
                  /\ query_results' =
                        {q} \cup {j \in all : {q, j} \in bbox_overlap} \cup fresh
                  /\ pc' = "isect_inner"
                  /\ UNCHANGED <<result, panic_site, i, visited_loop_pairs,
                                 slice_point_sets, slice_points_lookup, intersect_calls>>
    /\ UNCHANGED <<envVars, genVars, sliceVars, resVars, stitchVars>>

(* Lines 196-268: one iteration of `for j in query_results` (the index     *)
(* yields its results in an order of its own), or the end of that loop.    *)
IsectInner ==
    /\ pc = "isect_inner"
    /\ IF query_results = {}
       THEN /\ i' = i + 1
            /\ pc' = "isect_outer"
            /\ UNCHANGED <<result, panic_site, bbox_overlap, bbox_decided, query_results,
                           visited_loop_pairs, slice_point_sets, slice_points_lookup,
                           intersect_calls>>
       ELSE \E j \in query_results :
               /\ query_results' = query_results \ {j}
               /\ UNCHANGED <<bbox_overlap, bbox_decided, i>>
               /\ IF i = j \/ <<j, i>> \in visited_loop_pairs
                  THEN UNCHANGED <<pc, result, panic_site, visited_loop_pairs,
                                   slice_point_sets, slice_points_lookup, intersect_calls>>
                  ELSE /\ visited_loop_pairs' = visited_loop_pairs \cup {<<i, j>>}
                       /\ IF ~get_loop_in_bounds(j, ccw_offset_loops, cw_offset_loops)
                          THEN /\ Panic("get_loop")
                               /\ UNCHANGED <<slice_point_sets, slice_points_lookup,
                                              intersect_calls>>
                          ELSE LET loop1 == get_loop(i, ccw_offset_loops, cw_offset_loops)
                                   loop2 == get_loop(j, ccw_offset_loops, cw_offset_loops)
                               IN \E intersects \in IntersectResults(loop1.indexed_pline,
                                                       loop2.indexed_pline, PointBudget) :
                                     /\ intersect_calls' = BagAdd(intersect_calls,
                                            {loop1.indexed_pline.id, loop2.indexed_pline.id})
                                     /\ UNCHANGED <<pc, result, panic_site>>
                                     /\ IF SlicePoints(intersects) = <<>>
                                        THEN UNCHANGED <<slice_point_sets, slice_points_lookup>>
                                        ELSE /\ slice_point_sets' = Append(slice_point_sets,
                                                    SlicePointSet(i, j, SlicePoints(intersects)))
                                             /\ slice_points_lookup' =
                                                    LookupPush(LookupPush(slice_points_lookup,
                                                        i, Len(slice_point_sets)),
                                                        j, Len(slice_point_sets))
    /\ UNCHANGED <<envVars, genVars, sliceVars, resVars, stitchVars>>

(* ------------------------------ slicing ------------------------------- *)
DissectionPoint(seg, pos) == [seg_idx |-> seg, pos |-> pos]

(* Lines 330-345: the dissection points of loop n gathered from the slice  *)
(* point sets the lookup lists for it.                                     *)
RECURSIVE PointsOfSet(_, _, _)
PointsOfSet(set, n, k) ==
    IF k > Len(set.slice_points) THEN <<>>
    ELSE LET intr_pt == set.slice_points[k]
             seg == IF set.loop_idx1 = n THEN intr_pt.start_index1
                                         ELSE intr_pt.start_index2
         IN <<DissectionPoint(seg, intr_pt.point)>> \o PointsOfSet(set, n, k + 1)

RECURSIVE GatherIntrs(_, _, _)
GatherIntrs(set_idxs, n, k) ==
    IF k > Len(set_idxs) THEN <<>>
    ELSE PointsOfSet(slice_point_sets[set_idxs[k] + 1], n, 1)
             \o GatherIntrs(set_idxs, n, k + 1)

(* Lines 348-357: the comparison of two dissection points and the         *)
(* outcomes of sort_unstable_by (any order equal elements may be left in). *)
LessOrEqual(a, b, pline) ==
    \/ a.seg_idx < b.seg_idx
    \/ /\ a.seg_idx = b.seg_idx
       /\ dist_squared(a.pos, VertexPos(pline, a.seg_idx))
              <= dist_squared(b.pos, VertexPos(pline, a.seg_idx))

Permutations1(n) == {f \in [1 .. n -> 1 .. n] : \A x, y \in 1 .. n : f[x] = f[y] => x = y}

SortedIntrs(pts, pline) ==
    {[k \in 1 .. Len(pts) |-> pts[f[k]]] : f \in
        {g \in Permutations1(Len(pts)) :
            \A k \in 1 .. (Len(pts) - 1) : LessOrEqual(pts[g[k]], pts[g[k + 1]], pline)}}

(* PlineViewData::from_entire_pline: the view starts at the first vertex   *)
(* of the closed polyline, passes every vertex and ends at the first       *)
(* vertex again.  vertexes lists the positions of the vertices of the      *)
(* view.                                                                   *)
from_entire_pline(pline) ==
    [updated_start |-> VertexPos(pline, 0), end_point |-> VertexPos(pline, 0),
     entire |-> TRUE,
     vertexes |-> [k \in 1 .. (MaxSeg + 1) |-> VertexPos(pline, (k - 1) % MaxSeg)]]

(* The number of vertices of the polyline a view from pt1 to pt2 passes:   *)
(* none when both points lie on one segment with pt2 ahead of pt1, all of  *)
(* them when pt2 is not ahead.                                             *)
VertexesBetween(pt1, pt2, pline) ==
    IF pt1.seg_idx = pt2.seg_idx
    THEN IF dist_squared(pt1.pos, VertexPos(pline, pt1.seg_idx))
                < dist_squared(pt2.pos, VertexPos(pline, pt1.seg_idx))
         THEN 0 ELSE MaxSeg
    ELSE (pt2.seg_idx - pt1.seg_idx + MaxSeg) % MaxSeg

(* create_slice (PlineViewData::from_slice_points): an Option, here a     *)
(* sequence of no or one view; None when the two points coincide.  The     *)
(* view starts at pt1, passes the vertices of the polyline between the two *)
(* points and ends at pt2.                                                 *)
create_slice(pt1, pt2, pline) ==
    IF pt1.pos = pt2.pos THEN <<>>
    ELSE <<[updated_start |-> pt1.pos, end_point |-> pt2.pos, entire |-> FALSE,
            vertexes |-> <<pt1.pos>>
                \o [k \in 1 .. VertexesBetween(pt1, pt2, pline) |->
                       VertexPos(pline, (pt1.seg_idx + k) % MaxSeg)]
                \o <<pt2.pos>>]>>

DissectedSlice(src, v_data) == [source_idx |-> src, v_data |-> v_data]

(* The input loop of global index input_loop_idx (lines 302-306): a CCW    *)
(* input below |CCW|, else the CW input at input_loop_idx - |CCW|.         *)
InputLoop(input_loop_idx) ==
    IF input_loop_idx < Len(ccw_plines)
    THEN ccw_plines[input_loop_idx + 1]
    ELSE cw_plines[input_loop_idx - Len(ccw_plines) + 1]

(* PlineView::at over the view of v_data on offset_loop: the vertex at     *)
(* index k of the view, a position together with the polyline whose        *)
(* segment (and bulge) leaves it.                                          *)
view_at(v_data, offset_loop, k) == [of |-> offset_loop.id, pos |-> v_data.vertexes[k + 1]]

(* seg_midpoint: the point halfway along the segment from v1 to v2.  Two   *)
(* calls give the same point iff they are given the same segment: the same *)
(* end positions on the same polyline.                                     *)
seg_midpoint(v1, v2) == <<v1.of, v1.pos, v2.pos>>

(* What the geometry may be at one point: the set of the input loops the   *)
(* point is too close to, any set of input loops.                          *)
TooCloseSets == SUBSET {InputLoop(n) : n \in 0 .. (InputLoopCount - 1)}

Answered(oracle, midpoint, too_close) ==
    [m \in (DOMAIN oracle) \cup {midpoint} |->
        IF m = midpoint THEN too_close ELSE oracle[m]]

(* point_valid_for_offset(parent_loop, offset, ..., midpoint, ...).        *)
point_valid_for_offset(parent_loop, midpoint, oracle) == parent_loop \notin oracle[midpoint]

(* The loop of lines 299-319: the input loops are walked in order, the     *)
(* parent is skipped and the first invalid answer returns false.           *)
RECURSIVE is_slice_valid_from(_, _, _, _)
is_slice_valid_from(input_loop_idx, midpoint, parent, oracle) ==
    IF input_loop_idx >= InputLoopCount THEN TRUE
    ELSE IF input_loop_idx = parent
         THEN is_slice_valid_from(input_loop_idx + 1, midpoint, parent, oracle)
         ELSE IF ~point_valid_for_offset(InputLoop(input_loop_idx), midpoint, oracle)
              THEN FALSE
              ELSE is_slice_valid_from(input_loop_idx + 1, midpoint, parent, oracle)

(* The point is_slice_valid tests (lines 295-296): the midpoint of the     *)
(* first segment of the view of v_data on offset_loop.                     *)
slice_midpoint(v_data, offset_loop) ==
    seg_midpoint(view_at(v_data, offset_loop, 0), view_at(v_data, offset_loop, 1))

(* Variant of is_slice_valid that tests the parent loop as well.           *)
is_slice_valid_no_skip(v_data, offset_loop, parent, oracle) ==
    is_slice_valid_from(0, slice_midpoint(v_data, offset_loop), -1, oracle)

(* is_slice_valid (lines 290-322).                                         *)
is_slice_valid(v_data, offset_loop, parent, oracle) ==
    is_slice_valid_from(0, slice_midpoint(v_data, offset_loop), parent, oracle)

(* Record of one call of is_slice_valid: the loop and the view it was      *)
(* given, the point it asked point_valid_for_offset about, the input loops *)
(* that point is too close to, and what the call returned.                 *)
Probe(src, v_data, midpoint, too_close, kept) ==
    [source_idx |-> src, v_data |-> v_data, midpoint |-> midpoint,
     too_close |-> too_close, kept |-> kept]

(* A result polyline: a clone of an offset loop, or a loop the stitcher    *)
(* built from the slices it lists.                                         *)
ClonedPline(pline) == [pline |-> pline, slices |-> <<>>]

StitchedPline(area, slices) == [pline |-> Polyline(-1, -1, area), slices |-> slices]

(* The candidate that is the view of the entire loop, in the list of the   *)
(* candidates of a loop (the others are pairs of positions in              *)
(* sorted_intrs, counted from 1).                                          *)
EntireLoop == <<0, 0>>

(* Variant of single_point that takes the whole-loop branch only for a     *)
(* loop without points.                                                    *)
single_point_is_empty(sorted) == Len(sorted) = 0

(* Line 360: the loop is treated as one slice.                             *)
single_point(sorted) == Len(sorted) = 1

(* Variant of clone_is_ccw that never looks at the orientation.            *)
clone_always_ccw(pline) == pline = pline

(* Lines 424-425: the clone of an undissected loop goes to the CCW result. *)
clone_is_ccw(pline) == orientation(pline) = "CounterClockwise"

(* The outcomes of one call of is_slice_valid on v_data: the geometry at   *)
(* the point it tests, the answers given once that point was asked about   *)
(* and what the call returns.                                              *)
ValidityChecks(v_data, offset_loop, parent, answers) ==
    LET midpoint == slice_midpoint(v_data, offset_loop)
    IN {[oracle |-> Answered(answers, midpoint, too_close),
         midpoint |-> midpoint,
         too_close |-> too_close,
         kept |-> is_slice_valid(v_data, offset_loop, parent,
                                 Answered(answers, midpoint, too_close))] :
            too_close \in IF midpoint \in DOMAIN answers
                          THEN {answers[midpoint]} ELSE TooCloseSets}

(* Lines 324-374 and 413-432: the head of one iteration of `for loop_idx   *)
(* in 0..offset_loop_count` up to the windows loop.  too_close_of keeps    *)
(* the answers about the points a later call will ask about again: none    *)
(* once the only call for the loop is made.                                *)
SliceLoop ==
    /\ pc = "slice"
    /\ IF loop_idx >= offset_loop_count
       THEN /\ pc' = "stitch_setup"
            /\ probes' = <<>>
            /\ UNCHANGED <<result, panic_site, resVars>>
            /\ UNCHANGED <<loop_idx, sorted_intrs, win, too_close_of, slices_data, candidates>>
       ELSE IF ~get_loop_in_bounds(loop_idx, ccw_offset_loops, cw_offset_loops)
       THEN /\ Panic("get_loop")
            /\ UNCHANGED <<sliceVars, resVars>>
       ELSE LET curr_loop == get_loop(loop_idx, ccw_offset_loops, cw_offset_loops)
                pline == curr_loop.indexed_pline
                v_data == from_entire_pline(pline)
            IN /\ UNCHANGED <<result, panic_site>>
               /\ IF loop_idx \notin DOMAIN slice_points_lookup
                  THEN \E chk \in ValidityChecks(v_data, pline,
                                      curr_loop.parent_loop_idx, NoAnswers) :
                          /\ sorted_intrs' = <<>>
                          /\ candidates' = <<EntireLoop>>
                          /\ probes' = <<Probe(loop_idx, v_data, chk.midpoint,
                                              chk.too_close, chk.kept)>>
                          /\ too_close_of' = NoAnswers
                          /\ IF chk.kept /\ clone_is_ccw(pline)
                             THEN ccw_plines_result' =
                                      Append(ccw_plines_result, ClonedPline(pline))
                             ELSE ccw_plines_result' = ccw_plines_result
                          /\ IF chk.kept /\ ~clone_is_ccw(pline)
                             THEN cw_plines_result' =
                                      Append(cw_plines_result, ClonedPline(pline))
                             ELSE cw_plines_result' = cw_plines_result
                          /\ loop_idx' = loop_idx + 1
                          /\ UNCHANGED <<pc, win, slices_data>>
                  ELSE \E sorted \in SortedIntrs(
                              GatherIntrs(slice_points_lookup[loop_idx], loop_idx, 1), pline) :
                          /\ sorted_intrs' = sorted
                          /\ UNCHANGED resVars
                          /\ IF single_point(sorted)
                             THEN \E chk \in ValidityChecks(v_data, pline,
                                                 curr_loop.parent_loop_idx, NoAnswers) :
                                     /\ candidates' = <<EntireLoop>>
                                     /\ probes' = <<Probe(loop_idx, v_data, chk.midpoint,
                                              chk.too_close, chk.kept)>>
                                     /\ too_close_of' = NoAnswers
                                     /\ slices_data' =
                                          IF chk.kept
                                          THEN Append(slices_data,
                                                   DissectedSlice(loop_idx, v_data))
                                          ELSE slices_data
                                     /\ loop_idx' = loop_idx + 1
                                     /\ UNCHANGED <<pc, win>>
                             ELSE /\ pc' = "windows"
                                  /\ win' = 0
                                  /\ candidates' = <<>>
                                  /\ probes' = <<>>
                                  /\ too_close_of' = NoAnswers
                                  /\ UNCHANGED <<loop_idx, slices_data>>
    /\ UNCHANGED <<envVars, genVars, isectVars, stitchVars>>

(* Lines 379-392 and 397-410: create_slice followed, when it gave a view,  *)
(* by is_slice_valid.  The outcomes: the slices pushed, the call recorded  *)
(* and the answers given after it.                                         *)
SliceAttempts(v_data, src, offset_loop, parent, answers) ==
    IF v_data = <<>>
    THEN {[slices |-> <<>>, probes |-> <<>>, oracle |-> answers]}
    ELSE {[slices |-> IF chk.kept THEN <<DissectedSlice(src, v_data[1])>> ELSE <<>>,
           probes |-> <<Probe(src, v_data[1], chk.midpoint, chk.too_close, chk.kept)>>,
           oracle |-> chk.oracle] :
             chk \in ValidityChecks(v_data[1], offset_loop, parent, answers)}

(* The points the iterations of the windows loop from iteration w on ask   *)
(* about: the midpoints of the views of their windows and of the           *)
(* last-to-first view.                                                     *)
LaterMidpoints(w, sorted, offset_loop) ==
    LET views == {create_slice(sorted[k + 1], sorted[k + 2], offset_loop) :
                     k \in w .. (Len(sorted) - 2)}
                 \cup (IF w + 2 <= Len(sorted)
                       THEN {create_slice(sorted[Len(sorted)], sorted[1], offset_loop)}
                       ELSE {})
    IN {slice_midpoint(v[1], offset_loop) : v \in views \ {<<>>}}

Restricted(oracle, midpoints) ==
    [m \in (DOMAIN oracle) \cap midpoints |-> oracle[m]]

(* Lines 377-411: one iteration of `while let Some([pt1, pt2]) =           *)
(* windows.next()`, or the end of that loop.  After the iteration          *)
(* too_close_of keeps the answers about the points a later iteration asks  *)
(* about again.                                                            *)
SliceWindow ==
    /\ pc = "windows"
    /\ IF win + 2 > Len(sorted_intrs)
       THEN /\ pc' = "slice"
            /\ loop_idx' = loop_idx + 1
            /\ probes' = <<>>
            /\ UNCHANGED <<sorted_intrs, win, too_close_of, slices_data, candidates>>
       ELSE LET curr_loop == get_loop(loop_idx, ccw_offset_loops, cw_offset_loops)
                pline == curr_loop.indexed_pline
                parent == curr_loop.parent_loop_idx
                n == Len(sorted_intrs)
                v1 == create_slice(sorted_intrs[win + 1], sorted_intrs[win + 2], pline)
                v2 == create_slice(sorted_intrs[n], sorted_intrs[1], pline)
            IN \E a1 \in SliceAttempts(v1, loop_idx, pline, parent, too_close_of) :
                  \E a2 \in SliceAttempts(v2, loop_idx, pline, parent, a1.oracle) :
                     /\ too_close_of' = Restricted(a2.oracle,
                                            LaterMidpoints(win + 1, sorted_intrs, pline))
                     /\ slices_data' = slices_data \o a1.slices \o a2.slices
                     /\ candidates' = candidates \o <<<<win + 1, win + 2>>, <<n, 1>>>>
                     /\ probes' = a1.probes \o a2.probes
                     /\ win' = win + 1
                     /\ UNCHANGED <<pc, loop_idx, sorted_intrs>>
    /\ UNCHANGED <<result, panic_site, envVars, genVars, isectVars, resVars, stitchVars>>

(* ------------------------------ stitcher ------------------------------ *)
(* StaticAABB2DIndexBuilder::new(count) ... build(): the model leaves open *)
(* whether the index library accepts an index of no items; what it does is *)
(* fixed for the run the first time the question arises.                   *)
EmptyIndexAnswers == IF empty_index_ok = "unknown" THEN {"yes", "no"} ELSE {empty_index_ok}

(* The pairs of distinct points the stitcher's queries compare: the end    *)
(* point of one slice of the pool with the start point of another.  Two    *)
(* points with the same position are within pos_equal_eps of each other;   *)
(* two points with different positions are further apart than that and may *)
(* still be nearer than slice_join_eps.                                    *)
JoinPointPairs ==
    {{slices_data[a].v_data.end_point, slices_data[b].v_data.updated_start} :
        a, b \in DOMAIN slices_data}
      \ {{x} : x \in Pos}

(* The geometry of the slice end points the stitcher depends on: the pairs *)
(* of distinct points whose boxes of half-width slice_join_eps overlap     *)
(* (overlap), and those of them that lie within slice_join_eps of each     *)
(* other (within).                                                         *)
JoinGeometries ==
    {g \in [overlap : SUBSET JoinPointPairs, within : SUBSET JoinPointPairs] :
        /\ g.within \subseteq g.overlap
        /\ Cardinality(g.overlap) <= MaxNearPairs}

(* Lines 436-449: the index of the slice start points and the visited      *)
(* flags.  The records of the slicing stage (candidates, probes,           *)
(* too_close_of) are dropped: nothing reads them once slicing is over.     *)
StitchSetup ==
    /\ pc = "stitch_setup"
    /\ IF slices_data = <<>>
       THEN \E ok \in EmptyIndexAnswers :
               /\ empty_index_ok' = ok
               /\ IF ok = "yes"
                  THEN /\ pc' = "stitch_seed"
                       /\ UNCHANGED <<result, panic_site>>
                  ELSE Panic("index_build")
       ELSE /\ pc' = "stitch_seed"
            /\ UNCHANGED <<result, panic_site, empty_index_ok>>
    /\ \E g \in JoinGeometries :
          /\ join_overlap' = g.overlap
          /\ join_within' = g.within
    /\ visited_slices_idxs' = [k \in 1 .. Len(slices_data) |-> FALSE]
    /\ slice_idx' = 0
    /\ UNCHANGED <<current_index, loop_count, current_pline, stitch_log>>
    /\ candidates' = <<>>
    /\ probes' = <<>>
    /\ too_close_of' = NoAnswers
    /\ UNCHANGED <<loop_idx, sorted_intrs, win, slices_data>>
    /\ UNCHANGED <<ccw_plines, cw_plines, genVars, isectVars, resVars>>

(* Variant of seed_visited that takes every slice of the pool as a seed.    *)
seed_never_visited(visited, n) == visited # visited

(* Line 452: the slice was already consumed by an earlier walk.            *)
seed_visited(visited, n) == visited[n + 1]

(* Lines 451-460: one iteration of `for slice_idx in 0..slices_data.len()` *)
(* up to the walk, or the end of that loop.                                *)
StitchSeed ==
    /\ pc = "stitch_seed"
    /\ IF slice_idx >= Len(slices_data)
       THEN /\ pc' = "assemble"
            /\ UNCHANGED stitchVars
       ELSE IF seed_visited(visited_slices_idxs, slice_idx)
       THEN /\ slice_idx' = slice_idx + 1
            /\ UNCHANGED <<pc, visited_slices_idxs, current_index, loop_count,
                           current_pline, stitch_log>>
       ELSE /\ visited_slices_idxs' = [visited_slices_idxs EXCEPT ![slice_idx + 1] = TRUE]
            /\ current_index' = slice_idx
            /\ loop_count' = 0
            /\ current_pline' = <<>>
            /\ pc' = "stitch_walk"
            /\ UNCHANGED <<slice_idx, stitch_log>>
    /\ UNCHANGED <<result, panic_site, envVars, genVars, isectVars, sliceVars, resVars>>

(* Lines 439-445 and 484-487: the box of half-width slice_join_eps around  *)
(* point a overlaps the box of the same size around point b.               *)
join_boxes_overlap(a, b) == a = b \/ {a, b} \in join_overlap

(* The slices the query around the end point of slice n hits: those whose  *)
(* start point's box overlaps the box around that end point.               *)
StartsNear(n) ==
    {t \in 0 .. (Len(slices_data) - 1) :
        join_boxes_overlap(slices_data[t + 1].v_data.updated_start,
                           slices_data[n + 1].v_data.end_point)}

(* Variant of QueryResults whose visitor does not look at the visited      *)
(* flags.                                                                  *)
QueryResultsUnfiltered(n, visited) ==
    LET hits == StartsNear(n)
    IN {q \in [1 .. Cardinality(hits) -> hits] :
           \A x, y \in DOMAIN q : q[x] = q[y] => x = y}

(* Lines 476-490: what the visitor collects, in the orders the index may   *)
(* visit its items in.                                                     *)
QueryResults(n, visited) ==
    LET hits == {t \in StartsNear(n) : ~visited[t + 1]}
    IN {q \in [1 .. Cardinality(hits) -> hits] :
           \A x, y \in DOMAIN q : q[x] = q[y] => x = y}

(* Lines 506-516: find_map over the query results, else the first one.     *)
RECURSIVE find_same_source(_, _, _)
find_same_source(qr, k, src) ==
    IF k > Len(qr) THEN -1
    ELSE IF slices_data[qr[k] + 1].source_idx = src THEN qr[k]
         ELSE find_same_source(qr, k + 1, src)

(* Variant of next_slice that always takes the first query result.        *)
next_slice_first(qr, src) == qr[1]

next_slice(qr, src) ==
    IF find_same_source(qr, 1, src) # -1 THEN find_same_source(qr, 1, src) ELSE qr[1]

(* Polyline::remove_last.                                                  *)
remove_last(vs) == SubSeq(vs, 1, Len(vs) - 1)

(* Polyline::extend_remove_repeat: the vertices of the view are added one  *)
(* by one; a vertex at the position of the last vertex replaces it.        *)
RECURSIVE extend_remove_repeat(_, _, _)
extend_remove_repeat(vs, view, k) ==
    IF k > Len(view) THEN vs
    ELSE IF vs # <<>> /\ vs[Len(vs)] = view[k]
         THEN extend_remove_repeat(vs, view, k + 1)
         ELSE extend_remove_repeat(Append(vs, view[k]), view, k + 1)

(* The vertices of current_pline after line 474 when the walk has taken    *)
(* the first k of the slices s: each slice is appended (line 474) after    *)
(* the last vertex of the slices before it was removed (line 518).         *)
RECURSIVE WalkVertexes(_, _)
WalkVertexes(s, k) ==
    IF k = 0 THEN <<>>
    ELSE extend_remove_repeat(
             IF k = 1 THEN <<>> ELSE remove_last(WalkVertexes(s, k - 1)),
             slices_data[s[k] + 1].v_data.vertexes, 1)

(* Lines 493-496: the vertices of the polyline that is finalized.          *)
FinalVertexes(vs) == IF Len(vs) > 1 THEN remove_last(vs) ELSE vs

(* IndexedPolyline::new (lines 37-43): None for a polyline of fewer than   *)
(* two vertices, whose index cannot be built.                              *)
IndexedPolyline_new_is_some(vs) == Len(vs) >= 2

(* Lines 461-520: one iteration of the walk `loop`.                        *)
StitchWalk ==
    /\ pc = "stitch_walk"
    /\ IF loop_count > Len(slices_data)
       THEN /\ Panic("unreachable")
            /\ UNCHANGED <<stitchVars, resVars>>
       ELSE IF ~get_loop_in_bounds(slices_data[current_index + 1].source_idx,
                                   ccw_offset_loops, cw_offset_loops)
       THEN /\ Panic("get_loop")
            /\ UNCHANGED <<stitchVars, resVars>>
       ELSE LET curr_slice == slices_data[current_index + 1]
                pline == current_pline \o <<current_index>>
            IN \E qr \in QueryResults(current_index, visited_slices_idxs) :
                  /\ loop_count' = loop_count + 1
                  /\ IF qr = <<>>
                        /\ ~IndexedPolyline_new_is_some(
                               FinalVertexes(WalkVertexes(pline, Len(pline))))
                     THEN /\ Panic("index_new")
                          /\ current_pline' = pline
                          /\ stitch_log' = [from |-> current_index,
                                            visited |-> visited_slices_idxs,
                                            query |-> qr, chosen |-> -1]
                          /\ UNCHANGED <<slice_idx, visited_slices_idxs, current_index,
                                         resVars>>
                     ELSE IF qr = <<>>
                     THEN \E is_ccw \in BOOLEAN :
                             /\ UNCHANGED <<result, panic_site>>
                             /\ IF is_ccw
                                THEN /\ ccw_plines_result' = Append(ccw_plines_result,
                                            StitchedPline(1, pline))
                                     /\ UNCHANGED cw_plines_result
                                ELSE /\ cw_plines_result' = Append(cw_plines_result,
                                            StitchedPline(-1, pline))
                                     /\ UNCHANGED ccw_plines_result
                             /\ current_pline' = pline
                             /\ stitch_log' = [from |-> current_index,
                                               visited |-> visited_slices_idxs,
                                               query |-> qr, chosen |-> -1]
                             /\ slice_idx' = slice_idx + 1
                             /\ pc' = "stitch_seed"
                             /\ UNCHANGED <<visited_slices_idxs, current_index>>
                     ELSE LET nxt == next_slice(qr, curr_slice.source_idx)
                          IN /\ UNCHANGED <<result, panic_site>>
                             /\ current_index' = nxt
                             /\ current_pline' = pline
                             /\ visited_slices_idxs' =
                                    [visited_slices_idxs EXCEPT ![nxt + 1] = TRUE]
                             /\ stitch_log' = [from |-> current_index,
                                               visited |-> visited_slices_idxs,
                                               query |-> qr, chosen |-> nxt]
                             /\ UNCHANGED <<pc, slice_idx, resVars>>
    /\ UNCHANGED <<envVars, genVars, isectVars, sliceVars>>

(* Lines 523-549: the index of the result loops and the returned shape.    *)
Assemble ==
    /\ pc = "assemble"
    /\ IF Len(ccw_plines_result) + Len(cw_plines_result) = 0
       THEN \E ok \in EmptyIndexAnswers :
               /\ empty_index_ok' = ok
               /\ IF ok = "yes"
                  THEN /\ pc' = "done"
                       /\ result' = "Some"
                       /\ UNCHANGED panic_site
                  ELSE Panic("index_build")
       ELSE /\ pc' = "done"
            /\ result' = "Some"
            /\ UNCHANGED <<panic_site, empty_index_ok>>
    /\ UNCHANGED <<ccw_plines, cw_plines, join_overlap, join_within>>
    /\ UNCHANGED <<genVars, isectVars, sliceVars, resVars, stitchVars>>

Next ==
    \/ GenCcw
    \/ GenCw
    \/ CountCheck
    \/ IsectOuter
    \/ IsectInner
    \/ SliceLoop
    \/ SliceWindow
    \/ StitchSetup
    \/ StitchSeed
    \/ StitchWalk
    \/ Assemble

Spec == Init /\ [][Next]_vars

(* ============================== properties ============================ *)
Count(seq, x) == Cardinality({k \in DOMAIN seq : seq[k] = x})

SlicesFrom(src) == SelectSeq(slices_data, LAMBDA s : s.source_idx = src)

GenerationDone == pc \notin {"gen_ccw", "gen_cw"}

ResultLoopCount == Len(ccw_plines_result) + Len(cw_plines_result)

(* C1: once the offset loops are generated, get_loop(n, ccw_offset_loops,  *)
(* cw_offset_loops) is in bounds for every global index n below the total  *)
(* number of offset loops and returns the n-th loop of the CCW list        *)
(* followed by the CW list.                                                *)
C1_GetLoopGlobalIndex ==
    GenerationDone =>
        \A n \in 0 .. (offset_loop_count - 1) :
            /\ get_loop_in_bounds(n, ccw_offset_loops, cw_offset_loops)
            /\ get_loop(n, ccw_offset_loops, cw_offset_loops) = IndexedLoops[n + 1]

(* C2: whenever parallel_offset ends with no loop in its result lists it   *)
(* has returned None, so a returned Some(shape) holds at least one loop    *)
(* (the runs that die in get_loop are left aside).                         *)
C2_EmptyResultIsNone ==
    (pc = "done" /\ panic_site # "get_loop" /\ ResultLoopCount = 0) => result = "None"

(* C3: every loop of ccw_offset_loops has strictly positive area           *)
(* and every loop of cw_offset_loops strictly negative area (no raw offset *)
(* of zero area is kept).                                                  *)
C3_StrictAreaSigns ==
    /\ \A k \in DOMAIN ccw_offset_loops : ccw_offset_loops[k].indexed_pline.area > 0
    /\ \A k \in DOMAIN cw_offset_loops : cw_offset_loops[k].indexed_pline.area < 0

(* C4: an offset loop with exactly one dissection point yields exactly one *)
(* candidate, the view of the entire loop, and that view is in the slice   *)
(* pool iff it passed the validity check.                                  *)
C4_SinglePointKeepsWholeLoop ==
    (pc = "slice" /\ Len(sorted_intrs) = 1) =>
        /\ candidates = <<EntireLoop>>
        /\ Len(probes) = 1
        /\ probes[1].source_idx = loop_idx - 1
        /\ SlicesFrom(loop_idx - 1) =
               IF probes[1].kept
               THEN <<DissectedSlice(loop_idx - 1,
                        from_entire_pline(IndexedLoops[loop_idx].indexed_pline))>>
               ELSE <<>>

(* C4 witness: a loop with one dissection point was just sliced and its    *)
(* entire view is in the pool.                                             *)
C4_Witness ==
    /\ pc = "slice"
    /\ Len(sorted_intrs) = 1
    /\ Len(probes) = 1
    /\ probes[1].kept
    /\ Len(SlicesFrom(loop_idx - 1)) = 1

(* C5: for a loop with N >= 2 sorted dissection points the candidates are  *)
(* one per cyclically adjacent pair, the last-to-first candidate being     *)
(* created once, so at most N slices of the loop enter the pool.           *)
C5_WrapAroundOnce ==
    (pc = "slice" /\ Len(sorted_intrs) >= 2) =>
        LET n == Len(sorted_intrs)
        IN /\ \A k \in 1 .. (n - 1) : Count(candidates, <<k, k + 1>>) = 1
           /\ Count(candidates, <<n, 1>>) = 1
           /\ Len(candidates) = n
           /\ Len(SlicesFrom(loop_idx - 1)) <= n

InLookup(n, set_idx) ==
    /\ n \in DOMAIN slice_points_lookup
    /\ \E m \in DOMAIN slice_points_lookup[n] : slice_points_lookup[n][m] = set_idx

(* C6: with symmetric bounding boxes every unordered pair of distinct      *)
(* offset loops is given to the intersector at most once, no loop with     *)
(* itself, and every SlicePointSet has loop_idx1 < loop_idx2, a non-empty  *)
(* point list and its index in the lookup lists of both loops.             *)
C6_PairsOnceOrdered ==
    /\ \A c \in DOMAIN intersect_calls :
          intersect_calls[c] = 1 /\ Cardinality(c) = 2
    /\ \A k \in DOMAIN slice_point_sets :
          /\ slice_point_sets[k].loop_idx1 < slice_point_sets[k].loop_idx2
          /\ slice_point_sets[k].slice_points # <<>>
          /\ InLookup(slice_point_sets[k].loop_idx1, k - 1)
          /\ InLookup(slice_point_sets[k].loop_idx2, k - 1)

(* C7: the stitcher never runs into its cap: a walk makes at most as many  *)
(* iterations as the pool has slices and the unreachable! is not executed. *)
C7_StitcherCapNeverHit ==
    /\ panic_site # "unreachable"
    /\ loop_count <= Len(slices_data)

(* C7 witness: a walk over a pool with a duplicated slice came back to the *)
(* start point of its seed after three or more slices (a cyclic matching)  *)
(* and was finalized.                                                      *)
C7_Witness ==
    /\ pc = "stitch_seed"
    /\ stitch_log.chosen = -1
    /\ stitch_log.from >= 0
    /\ Len(current_pline) >= 3
    /\ slices_data[current_pline[Len(current_pline)] + 1].v_data.end_point =
           slices_data[current_pline[1] + 1].v_data.updated_start
    /\ \E a, b \in DOMAIN slices_data : a # b /\ slices_data[a] = slices_data[b]

ProbeLoop(p) == IndexedLoops[p.source_idx + 1]

(* Global index of the input loop the probed offset loop was offset from:  *)
(* the position of that input loop in the CCW list followed by the CW      *)
(* list.                                                                   *)
ProbeParent(p) ==
    CHOOSE n \in 0 .. (InputLoopCount - 1) :
        (ccw_plines \o cw_plines)[n + 1] = ProbeLoop(p).indexed_pline.src

(* The point a probed view must be tested at: the midpoint of its first    *)
(* segment.                                                                *)
FirstSegmentMidpoint(p) ==
    <<ProbeLoop(p).indexed_pline.id, p.v_data.vertexes[1], p.v_data.vertexes[2]>>

KeptProbes == SelectSeq(probes, LAMBDA p : p.kept)

(* C8: the parent index of an offset loop is the global index of the input *)
(* loop it was offset from (|CCW| + k for the k-th CW input); the validity *)
(* check asks about the midpoint of the first segment of the candidate's   *)
(* view, and the candidate is kept iff that point is not too close to any  *)
(* input loop other than the parent, whatever it is to the parent; the     *)
(* slices one step of the windows loop adds to the pool are those of its   *)
(* kept candidates.                                                        *)
C8_ValidityExcludesOnlyParent ==
    /\ \A k \in DOMAIN ccw_plines :
          \A m \in DOMAIN IndexedLoops :
              IndexedLoops[m].indexed_pline.src = ccw_plines[k] =>
                  IndexedLoops[m].parent_loop_idx = k - 1
    /\ \A k \in DOMAIN cw_plines :
          \A m \in DOMAIN IndexedLoops :
              IndexedLoops[m].indexed_pline.src = cw_plines[k] =>
                  IndexedLoops[m].parent_loop_idx = Len(ccw_plines) + (k - 1)
    /\ \A k \in DOMAIN probes :
          /\ probes[k].midpoint = FirstSegmentMidpoint(probes[k])
          /\ probes[k].kept <=>
                 \A n \in (0 .. (InputLoopCount - 1)) \ {ProbeParent(probes[k])} :
                     InputLoop(n) \notin probes[k].too_close
          /\ \A m \in DOMAIN probes :
                 probes[m].midpoint = probes[k].midpoint =>
                     probes[m].too_close = probes[k].too_close
    /\ pc = "windows" =>
           LET kept == KeptProbes
           IN /\ Len(kept) <= Len(slices_data)
              /\ \A k \in DOMAIN kept :
                    slices_data[Len(slices_data) - Len(kept) + k]
                        = DissectedSlice(kept[k].source_idx, kept[k].v_data)

(* C8 witness: the shape has a CCW input loop and two CW input loops or    *)
(* more; a candidate of an offset of the second CW input (parent index     *)
(* |CCW| + 1) was kept although its probe point is too close to its own    *)
(* parent, and in the same step another candidate was dropped whose probe  *)
(* point is too close to the parent and to another input loop.             *)
C8_Witness ==
    /\ Len(ccw_plines) >= 1
    /\ Len(cw_plines) >= 2
    /\ \E k, m \in DOMAIN probes :
          /\ ProbeParent(probes[k]) = Len(ccw_plines) + 1
          /\ probes[k].kept
          /\ probes[k].too_close = {InputLoop(ProbeParent(probes[k]))}
          /\ ~probes[m].kept
          /\ InputLoop(ProbeParent(probes[m])) \in probes[m].too_close
          /\ Cardinality(probes[m].too_close) >= 2

FirstSameSource(lg) ==
    {k \in DOMAIN lg.query :
        /\ slices_data[lg.query[k] + 1].source_idx = slices_data[lg.from + 1].source_idx
        /\ \A m \in 1 .. (k - 1) :
              slices_data[lg.query[m] + 1].source_idx
                  # slices_data[lg.from + 1].source_idx}

(* C9: in a step of the walk the query returns only unvisited slices; if   *)
(* it returns any, the next slice is the first returned one of the current *)
(* slice's source loop if there is one and else the first returned one;    *)
(* the loop is finalized only when no unvisited slice starts at the        *)
(* current end point.                                                      *)
C9_NextSliceChoice ==
    stitch_log.from >= 0 =>
        /\ \A k \in DOMAIN stitch_log.query : ~stitch_log.visited[stitch_log.query[k] + 1]
        /\ stitch_log.query # <<>> =>
               stitch_log.chosen =
                   IF FirstSameSource(stitch_log) # {}
                   THEN stitch_log.query[CHOOSE k \in FirstSameSource(stitch_log) : TRUE]
                   ELSE stitch_log.query[1]
        /\ stitch_log.chosen = -1 <=> stitch_log.query = <<>>
        /\ stitch_log.chosen = -1 =>
               \A t \in StartsNear(stitch_log.from) : stitch_log.visited[t + 1]

(* C9 witness: the query returned a slice of another loop first and a      *)
(* slice of the current loop after it, and the latter was chosen.          *)
C9_Witness ==
    /\ stitch_log.from >= 0
    /\ Len(stitch_log.query) >= 2
    /\ slices_data[stitch_log.query[1] + 1].source_idx
           # slices_data[stitch_log.from + 1].source_idx
    /\ stitch_log.chosen # stitch_log.query[1]
    /\ stitch_log.chosen # -1

CloneOf(n) == ClonedPline(IndexedLoops[n + 1].indexed_pline)

(* C10: an offset loop without dissection points has no slice in the pool; *)
(* its clone is in the result at most once, in the CCW list only if its    *)
(* orientation is counter-clockwise and in the CW list only if it is not,  *)
(* and right after the loop is handled the clone is there iff the          *)
(* whole-loop candidate was valid.                                         *)
C10_UndissectedLoopCloned ==
    /\ \A n \in 0 .. (offset_loop_count - 1) :
          n \notin DOMAIN slice_points_lookup =>
              /\ SlicesFrom(n) = <<>>
              /\ Count(ccw_plines_result, CloneOf(n)) <=
                     (IF orientation(IndexedLoops[n + 1].indexed_pline)
                             = "CounterClockwise" THEN 1 ELSE 0)
              /\ Count(cw_plines_result, CloneOf(n)) <=
                     (IF orientation(IndexedLoops[n + 1].indexed_pline)
                             = "CounterClockwise" THEN 0 ELSE 1)
    /\ (pc = "slice" /\ loop_idx >= 1 /\ (loop_idx - 1) \notin DOMAIN slice_points_lookup) =>
           Count(ccw_plines_result \o cw_plines_result, CloneOf(loop_idx - 1)) =
               (IF probes[1].kept THEN 1 ELSE 0)

(* C10 witness: a valid clockwise loop without dissection points was just  *)
(* cloned into the CW result list.                                         *)
C10_Witness ==
    /\ pc = "slice"
    /\ loop_idx >= 1
    /\ (loop_idx - 1) \notin DOMAIN slice_points_lookup
    /\ probes[1].kept
    /\ orientation(IndexedLoops[loop_idx].indexed_pline) = "Clockwise"
    /\ Count(cw_plines_result, CloneOf(loop_idx - 1)) = 1

(* The loops the stitcher has emitted so far.                              *)
StitchedLoops ==
    SelectSeq(ccw_plines_result \o cw_plines_result, LAMBDA p : p.slices # <<>>)

(* How many times slice n was appended to an output polyline: to an        *)
(* emitted loop, or to the polyline of the walk under way.                 *)
TimesAppended(n) ==
    Cardinality({x \in (DOMAIN StitchedLoops) \X (DOMAIN slices_data) :
                    /\ x[2] \in DOMAIN StitchedLoops[x[1]].slices
                    /\ StitchedLoops[x[1]].slices[x[2]] = n})
        + (IF pc = "stitch_walk" THEN Count(current_pline, n) ELSE 0)

Stitching == pc \in {"stitch_seed", "stitch_walk", "assemble"}

StitchingEnded == pc = "assemble" \/ (pc = "done" /\ result = "Some")

(* C11: in the stitcher every slice of the pool is consumed exactly once:  *)
(* a slice is appended to an output polyline once if it is marked visited  *)
(* (the slice the walk stands on is appended in its next step) and never   *)
(* otherwise; when stitching has ended every slice is visited and a        *)
(* non-empty pool has given at least one and at most pool-size loops.      *)
C11_EachSliceConsumedOnce ==
    /\ (Stitching \/ StitchingEnded) =>
           \A n \in 0 .. (Len(slices_data) - 1) :
               TimesAppended(n) =
                   IF visited_slices_idxs[n + 1]
                      /\ ~(pc = "stitch_walk" /\ n = current_index)
                   THEN 1 ELSE 0
    /\ StitchingEnded =>
           /\ \A n \in 0 .. (Len(slices_data) - 1) : visited_slices_idxs[n + 1]
           /\ Len(StitchedLoops) <= Len(slices_data)
           /\ slices_data # <<>> => Len(StitchedLoops) >= 1

(* C11 witness: stitching ended over a pool of three or more slices with   *)
(* two or more loops emitted, one of them made of several slices.          *)
C11_Witness ==
    /\ pc = "assemble"
    /\ Len(slices_data) >= 3
    /\ Len(StitchedLoops) >= 2
    /\ \E k \in DOMAIN StitchedLoops : Len(StitchedLoops[k].slices) >= 2

SliceStart(n) == slices_data[n + 1].v_data.updated_start

SliceEnd(n) == slices_data[n + 1].v_data.end_point

(* Two points lie within slice_join_eps of each other.                     *)
WithinJoinEps(a, b) == a = b \/ {a, b} \in join_within

(* C12: every loop the stitcher has emitted is a closed chain of slices:   *)
(* each slice of it starts within slice_join_eps of the end point of the   *)
(* slice before it, and its last slice ends within slice_join_eps of the   *)
(* start point of its seed slice.                                          *)
C12_ClosedChains ==
    \A k \in DOMAIN StitchedLoops :
        LET s == StitchedLoops[k].slices
        IN /\ \A m \in 1 .. (Len(s) - 1) :
                 WithinJoinEps(SliceStart(s[m + 1]), SliceEnd(s[m]))
           /\ WithinJoinEps(SliceEnd(s[Len(s)]), SliceStart(s[1]))
====
